---- MODULE Spec2Model ----
(***************************************************************************)
(* State snapshot recorder of the MTG workflow (async_state_saver.py):     *)
(* SimpleStateSaver (sequence counter, counter lock, single-worker         *)
(* executor, run directory) and the save_state decorator that wraps a      *)
(* workflow step.  Threads: the callers (the workflow driver "main" and a  *)
(* second thread calling the recorder directly) and the one executor       *)
(* thread.  Every statement of save_sync that reads or writes shared state *)
(* is a step of its own, so all interleavings of callers and worker are    *)
(* explored.                                                               *)
(***************************************************************************)
EXTENDS Integers, Sequences, FiniteSets, TLC

----------------------------------------------------------------------------
(* Bounds of the exploration *)

\* direct calls of save_sync and save_background in one behaviour
MaxCalls == 3
\* calls of a wrapped step in one behaviour
MaxSteps == 2
\* seconds the wall clock advances in one behaviour
MaxTicks == 1

----------------------------------------------------------------------------
(* Threads *)

Driver == "main"
Callers == {"main", "t2"}
Worker == "StateSaver_0"
Threads == Callers \cup {Worker}
NoThread == "unlocked"

----------------------------------------------------------------------------
(* Python values: a tag k and a payload v.  Dicts keep insertion order, so  *)
(* their payload is a sequence of <<key, value>> pairs with distinct keys. *)

PyNone == [k |-> "none", v |-> "None"]
PyStr(s) == [k |-> "str", v |-> s]
PyInt(n) == [k |-> "int", v |-> n]
PyBool(b) == [k |-> "bool", v |-> b]
PyList(s) == [k |-> "list", v |-> s]
PyTuple(s) == [k |-> "tuple", v |-> s]
PyDict(items) == [k |-> "dict", v |-> items]
\* an arbitrary object whose str() is r (a browser page, say)
PyObject(r) == [k |-> "object", v |-> r]
\* an arbitrary object whose __str__ raises
PyBadObject == [k |-> "badobject", v |-> ""]
\* the result of an evaluation that raised
Raise == [k |-> "RAISE", v |-> ""]

\* d[key] = val on an insertion-ordered dict
DictSet(items, key, val) ==
    IF \E i \in DOMAIN items : items[i][1] = key
    THEN [i \in DOMAIN items |-> IF items[i][1] = key THEN <<key, val>> ELSE items[i]]
    ELSE Append(items, <<key, val>>)

\* repr(obj) in the place of str(obj): a string comes back in quotes
Str_repr(obj) ==
    CASE obj.k = "str" -> PyStr("'" \o obj.v \o "'")
      [] obj.k = "int" -> PyStr(ToString(obj.v))
      [] obj.k = "bool" -> PyStr(IF obj.v THEN "True" ELSE "False")
      [] obj.k = "none" -> PyStr("None")
      [] obj.k = "object" -> PyStr(obj.v)
      [] obj.k = "badobject" -> Raise

\* str(obj) for the values the recorder applies it to: dict keys and arbitrary objects
Str(obj) ==
    CASE obj.k = "str" -> PyStr(obj.v)
      [] obj.k = "int" -> PyStr(ToString(obj.v))
      [] obj.k = "bool" -> PyStr(IF obj.v THEN "True" ELSE "False")
      [] obj.k = "none" -> PyStr("None")
      [] obj.k = "object" -> PyStr(obj.v)
      [] obj.k = "badobject" -> Raise

RECURSIVE _clean_for_json(_)
RECURSIVE CleanItems(_, _)

\* the dict comprehension of _clean_for_json: items in order, later equal keys win
CleanItems(items, acc) ==
    IF items = <<>> THEN PyDict(acc)
    ELSE LET key == Str(Head(items)[1])
             val == _clean_for_json(Head(items)[2])
         IN IF key = Raise \/ val = Raise THEN Raise
            ELSE CleanItems(Tail(items), DictSet(acc, key, val))

_clean_for_json(obj) ==
    IF obj.k \in {"none", "str", "int", "float", "bool"} THEN obj
    ELSE IF obj.k \in {"list", "tuple"}
    THEN LET items == [i \in DOMAIN obj.v |-> _clean_for_json(obj.v[i])]
         IN IF \E i \in DOMAIN items : items[i] = Raise THEN Raise ELSE PyList(items)
    ELSE IF obj.k = "dict" THEN CleanItems(obj.v, <<>>)
    ELSE Str(obj)

----------------------------------------------------------------------------
(* File names *)

Pad2(n) == IF n < 10 THEN "0" \o ToString(n) ELSE ToString(n)

\* a sequence number cut to the three digits of the field
Pad3_wraps(n) == IF n % 1000 < 10 THEN "00" \o ToString(n % 1000)
                 ELSE IF n % 1000 < 100 THEN "0" \o ToString(n % 1000)
                 ELSE ToString(n % 1000)

\* f"{n:03d}"
Pad3(n) == IF n < 10 THEN "00" \o ToString(n)
           ELSE IF n < 100 THEN "0" \o ToString(n) ELSE ToString(n)

\* the wall clock starts one second before midnight
ClockStart == 86399

\* datetime.now().strftime("%H%M%S") at second t of the clock
strftime_HMS(t) ==
    LET s == (ClockStart + t) % 86400
    IN Pad2(s \div 3600) \o Pad2((s % 3600) \div 60) \o Pad2(s % 60)

FileName(n, node_name, timestamp) ==
    Pad3(n) \o "_" \o node_name \o "_" \o timestamp \o ".json"

\* os.path.join(run_dir, filename)
FilePath(run_dir, filename) == run_dir \o "/" \o filename

----------------------------------------------------------------------------
(* Inputs *)

WorkflowName == "mtg_workflow"
BaseDir == "workflow_states"
RunId == "20261104_235959_ab12cd34"
RunDir == BaseDir \o "/" \o WorkflowName \o "_" \o RunId

\* the state objects that exist before the first call
InitialHeap ==
    << PyDict(<< <<PyStr("a"), PyInt(1)>> >>),
       PyStr("x"),
       PyDict(<< <<PyStr("page"), PyBadObject>> >>) >>

\* what a step returns when it builds a new state
StepResults == { PyDict(<< <<PyStr("a"), PyInt(1)>>, <<PyStr("browser_ready"), PyBool(TRUE)>> >>) }

\* node names given to direct save_sync / save_background calls
NodeNames == {"n"}

\* the decorator's node_name argument; NotGiven is the default None
NotGiven == "<None>"
ExplicitNames == {NotGiven, "launch_browser"}
\* func.__name__ of the wrapped step
FuncName == "launch_browser_node"

NoExc == [type |-> "", msg |-> ""]
\* what a wrapped step raises
StepErrors == { [type |-> "TimeoutError", msg |-> "boom"] }
\* what ThreadPoolExecutor.submit raises once the executor has shut down
SubmitError == [type |-> "RuntimeError", msg |-> "cannot schedule new futures after shutdown"]

----------------------------------------------------------------------------
(* State *)

VARIABLES
    _saver,     \* the module global: "None" or "saver"
    counter,    \* SimpleStateSaver.counter
    lock,       \* SimpleStateSaver._lock: the thread holding it, or NoThread
    queue,      \* the executor's work queue: jobs [id, state, node_name]
    shutdown,   \* the executor accepts no more submissions
    files,      \* the run directory: file path -> JSON document
    heap,       \* the state objects: reference -> value
    now,        \* the wall clock, in seconds since ClockStart
    pc,         \* each thread's position
    fr,         \* each thread's save_sync frame
    wf,         \* each caller's frame of the save_state wrapper
    outcome,    \* what each caller's last call gave back
    calls,      \* calls made so far
    submitted,  \* jobs submitted to the executor so far
    log,        \* finished save_sync executions, in order of completion
    writes,     \* files written, in order of landing
    nm,         \* two save_sync executions and the file paths they compute
    cj,         \* a value and what _clean_for_json makes of it
    rd,         \* the reader: the files it enumerated and the runs it grouped
    g           \* the workflow of graph.py: its globals and its driver

vars == << _saver, counter, lock, queue, shutdown, files, heap, now, pc, fr, wf,
           outcome, calls, submitted, log, writes, nm, cj, rd, g >>

\* the recorder and its callers
recorder == << _saver, counter, lock, queue, shutdown, files, heap, now, pc, fr, wf,
               outcome, calls, submitted, log, writes >>

\* what the recorder's own steps never touch
aux == << nm, cj, rd, g >>

NoData == [metadata |-> [node |-> "", order |-> 0, time |-> 0, workflow |-> "", run_id |-> ""],
           state |-> PyNone]

NoFrame == [job |-> 0, state |-> 0, node_name |-> "", tmp |-> 0, n |-> 0, timestamp |-> "",
            filename |-> "", filepath |-> "", clean_state |-> PyNone, data |-> NoData,
            failed |-> FALSE]

NoWrap == [state |-> 0, node_name |-> NotGiven, result |-> 0, e |-> NoExc,
           steperr |-> NoExc, error_state |-> 0, input |-> PyNone, subs |-> <<>>,
           saver |-> "None"]

NoOutcome == [kind |-> "none", ref |-> 0, path |-> "", exc |-> NoExc, call |-> "none",
              wrap |-> NoWrap]

\* nothing named, coerced or read yet
NoNames == [pc |-> "idle"]
NoClean == [pc |-> "idle"]
NoReader == [pc |-> "idle"]
\* the graph not invoked; browser and page stand for _BROWSER and _PAGE
NoGraph == [pc |-> "idle", node |-> 0, browser |-> "None", page |-> "None",
            attempt |-> 0, prereq |-> TRUE, acts |-> << >>, failed |-> FALSE,
            steps |-> << >>]

Init ==
    /\ _saver = "None"
    /\ counter = 0
    /\ lock = NoThread
    /\ queue = <<>>
    /\ shutdown = FALSE
    /\ files = << >>
    /\ heap = InitialHeap
    /\ now = 0
    /\ pc = [t \in Threads |-> "idle"]
    /\ fr = [t \in Threads |-> NoFrame]
    /\ wf = [t \in Callers |-> NoWrap]
    /\ outcome = [t \in Callers |-> NoOutcome]
    /\ calls = 0
    /\ submitted = 0
    /\ log = <<>>
    /\ writes = <<>>
    /\ nm = NoNames
    /\ cj = NoClean
    /\ rd = NoReader
    /\ g = NoGraph

----------------------------------------------------------------------------
(* SimpleStateSaver.save_sync, statement by statement, run by thread t *)

\* a call of save_sync(state, node_name) starts: the frame of the call
Frame(job, state, node_name) ==
    [NoFrame EXCEPT !.job = job, !.state = state, !.node_name = node_name]

\* save_sync returns ret to thread t: the with-block releases the lock, a
\* caller gets the value, the executor keeps it in a future nobody reads
Return(t, ret) ==
    /\ lock' = IF lock = t THEN NoThread ELSE lock
    /\ log' = Append(log, [thread |-> t, job |-> fr[t].job, n |-> fr[t].n,
                           order |-> fr[t].data.metadata.order,
                           filename |-> fr[t].filename, node_name |-> fr[t].node_name,
                           timestamp |-> fr[t].timestamp, failed |-> fr[t].failed,
                           ret |-> ret])
    /\ pc' = [pc EXCEPT ![t] = "idle"]
    /\ fr' = [fr EXCEPT ![t] = NoFrame]
    /\ outcome' = IF t \in Callers
                  THEN [outcome EXCEPT ![t] = [NoOutcome EXCEPT !.kind = "returned",
                                                                !.path = ret,
                                                                !.call = "save_sync"]]
                  ELSE outcome

\* save_sync without the counter lock
ss_lock_unguarded(t) ==
    /\ pc[t] = "ss_lock"
    /\ pc' = [pc EXCEPT ![t] = "ss_inc_read"]
    /\ UNCHANGED << _saver, counter, lock, queue, shutdown, files, heap, now, fr, wf,
                    outcome, calls, submitted, log, writes >>
    /\ UNCHANGED aux

\* with self._lock:
ss_lock(t) ==
    /\ pc[t] = "ss_lock"
    /\ lock = NoThread
    /\ lock' = t
    /\ pc' = [pc EXCEPT ![t] = "ss_inc_read"]
    /\ UNCHANGED << _saver, counter, queue, shutdown, files, heap, now, fr, wf,
                    outcome, calls, submitted, log, writes >>
    /\ UNCHANGED aux

\* self.counter += 1 (the load)
ss_inc_read(t) ==
    /\ pc[t] = "ss_inc_read"
    /\ fr' = [fr EXCEPT ![t].tmp = counter]
    /\ pc' = [pc EXCEPT ![t] = "ss_inc_write"]
    /\ UNCHANGED << _saver, counter, lock, queue, shutdown, files, heap, now, wf,
                    outcome, calls, submitted, log, writes >>
    /\ UNCHANGED aux

\* self.counter += 1 (the store)
ss_inc_write(t) ==
    /\ pc[t] = "ss_inc_write"
    /\ counter' = fr[t].tmp + 1
    /\ pc' = [pc EXCEPT ![t] = "ss_filename"]
    /\ UNCHANGED << _saver, lock, queue, shutdown, files, heap, now, fr, wf,
                    outcome, calls, submitted, log, writes >>
    /\ UNCHANGED aux

\* timestamp, filename and filepath
ss_filename(t) ==
    /\ pc[t] = "ss_filename"
    /\ LET timestamp == strftime_HMS(now)
           filename == FileName(counter, fr[t].node_name, timestamp)
       IN fr' = [fr EXCEPT ![t].n = counter,
                           ![t].timestamp = timestamp,
                           ![t].filename = filename,
                           ![t].filepath = FilePath(RunDir, filename)]
    /\ pc' = [pc EXCEPT ![t] = "ss_clean"]
    /\ UNCHANGED << _saver, counter, lock, queue, shutdown, files, heap, now, wf,
                    outcome, calls, submitted, log, writes >>
    /\ UNCHANGED aux

\* clean_state = self._clean_for_json(state); an exception enters the handler
ss_clean(t) ==
    /\ pc[t] = "ss_clean"
    /\ LET clean_state == _clean_for_json(heap[fr[t].state])
       IN IF clean_state = Raise
          THEN /\ pc' = [pc EXCEPT ![t] = "ss_except"]
               /\ fr' = [fr EXCEPT ![t].failed = TRUE]
          ELSE /\ pc' = [pc EXCEPT ![t] = "ss_data"]
               /\ fr' = [fr EXCEPT ![t].clean_state = clean_state]
    /\ UNCHANGED << _saver, counter, lock, queue, shutdown, files, heap, now, wf,
                    outcome, calls, submitted, log, writes >>
    /\ UNCHANGED aux

\* the metadata built with the counter value from before the increment
ss_data_stale_order(t) ==
    /\ pc[t] = "ss_data"
    /\ fr' = [fr EXCEPT ![t].data =
                 [metadata |-> [node |-> fr[t].node_name,
                                order |-> fr[t].tmp,
                                time |-> now,
                                workflow |-> WorkflowName,
                                run_id |-> RunId],
                  state |-> fr[t].clean_state]]
    /\ pc' = [pc EXCEPT ![t] = "ss_write"]
    /\ UNCHANGED << _saver, counter, lock, queue, shutdown, files, heap, now, wf,
                    outcome, calls, submitted, log, writes >>
    /\ UNCHANGED aux

\* data = {"metadata": {...}, "state": clean_state}
ss_data(t) ==
    /\ pc[t] = "ss_data"
    /\ fr' = [fr EXCEPT ![t].data =
                 [metadata |-> [node |-> fr[t].node_name,
                                order |-> counter,
                                time |-> now,
                                workflow |-> WorkflowName,
                                run_id |-> RunId],
                  state |-> fr[t].clean_state]]
    /\ pc' = [pc EXCEPT ![t] = "ss_write"]
    /\ UNCHANGED << _saver, counter, lock, queue, shutdown, files, heap, now, wf,
                    outcome, calls, submitted, log, writes >>
    /\ UNCHANGED aux

\* open(filepath, 'w') and json.dump succeed; return filepath
ss_write(t) ==
    /\ pc[t] = "ss_write"
    /\ files' = (fr[t].filepath :> fr[t].data) @@ files
    /\ writes' = Append(writes, [path |-> fr[t].filepath, job |-> fr[t].job,
                                 thread |-> t, order |-> fr[t].data.metadata.order])
    /\ Return(t, fr[t].filepath)
    /\ UNCHANGED << _saver, counter, queue, shutdown, heap, now, wf, calls, submitted >>
    /\ UNCHANGED aux

\* open(filepath, 'w') raises (permission denied, disk full): no file appears
ss_write_fails(t) ==
    /\ pc[t] = "ss_write"
    /\ pc' = [pc EXCEPT ![t] = "ss_except"]
    /\ fr' = [fr EXCEPT ![t].failed = TRUE]
    /\ UNCHANGED << _saver, counter, lock, queue, shutdown, files, heap, now, wf,
                    outcome, calls, submitted, log, writes >>
    /\ UNCHANGED aux

\* save_sync without the handler: the exception leaves the with-block, which
\* releases the lock, and reaches the caller
ss_except_propagates(t) ==
    /\ pc[t] = "ss_except"
    /\ lock' = IF lock = t THEN NoThread ELSE lock
    /\ log' = Append(log, [thread |-> t, job |-> fr[t].job, n |-> fr[t].n,
                           order |-> fr[t].data.metadata.order,
                           filename |-> fr[t].filename, node_name |-> fr[t].node_name,
                           timestamp |-> fr[t].timestamp, failed |-> fr[t].failed,
                           ret |-> "<raised>"])
    /\ pc' = [pc EXCEPT ![t] = "idle"]
    /\ fr' = [fr EXCEPT ![t] = NoFrame]
    /\ outcome' = IF t \in Callers
                  THEN [outcome EXCEPT ![t] = [NoOutcome EXCEPT !.kind = "raised",
                                                                !.exc = [type |-> "OSError", msg |-> "write failed"],
                                                                !.call = "save_sync"]]
                  ELSE outcome
    /\ UNCHANGED << _saver, counter, queue, shutdown, files, heap, now, wf, calls,
                    submitted, writes >>
    /\ UNCHANGED aux

\* the handler returning "" with the lock still held
ss_except_keeps_lock(t) ==
    /\ pc[t] = "ss_except"
    /\ log' = Append(log, [thread |-> t, job |-> fr[t].job, n |-> fr[t].n,
                           order |-> fr[t].data.metadata.order,
                           filename |-> fr[t].filename, node_name |-> fr[t].node_name,
                           timestamp |-> fr[t].timestamp, failed |-> fr[t].failed,
                           ret |-> ""])
    /\ pc' = [pc EXCEPT ![t] = "idle"]
    /\ fr' = [fr EXCEPT ![t] = NoFrame]
    /\ outcome' = IF t \in Callers
                  THEN [outcome EXCEPT ![t] = [NoOutcome EXCEPT !.kind = "returned",
                                                                !.path = "",
                                                                !.call = "save_sync"]]
                  ELSE outcome
    /\ UNCHANGED << _saver, counter, lock, queue, shutdown, files, heap, now, wf, calls,
                    submitted, writes >>
    /\ UNCHANGED aux

\* except Exception as e: print(...); return ""
ss_except(t) ==
    /\ pc[t] = "ss_except"
    /\ Return(t, "")
    /\ UNCHANGED << _saver, counter, queue, shutdown, files, heap, now, wf, calls,
                    submitted, writes >>
    /\ UNCHANGED aux

save_sync(t) ==
    \/ ss_lock(t)
    \/ ss_inc_read(t)
    \/ ss_inc_write(t)
    \/ ss_filename(t)
    \/ ss_clean(t)
    \/ ss_data(t)
    \/ ss_write(t)
    \/ ss_write_fails(t)
    \/ ss_except(t)

----------------------------------------------------------------------------
(* The executor: one worker thread taking the jobs of a FIFO queue *)

\* the positions at which a caller is inside save_background
SubmitPcs == {"sb_submit", "w_submit", "w_esubmit"}

\* a work queue that hands out the newest job first
queue_get_newest(q) == [job |-> q[Len(q)], rest |-> SubSeq(q, 1, Len(q) - 1)]

\* the work queue's get(): the oldest job, and the queue without it
queue_get(q) == [job |-> Head(q), rest |-> Tail(q)]

\* the worker thread takes a job and calls save_sync(state, node_name)
worker_take ==
    /\ pc[Worker] = "idle"
    /\ queue # <<>>
    /\ LET got == queue_get(queue)
       IN /\ fr' = [fr EXCEPT ![Worker] = Frame(got.job.id, got.job.state,
                                                 got.job.node_name)]
          /\ queue' = got.rest
    /\ pc' = [pc EXCEPT ![Worker] = "ss_lock"]
    /\ UNCHANGED << _saver, counter, lock, shutdown, files, heap, now, wf, outcome,
                    calls, submitted, log, writes >>
    /\ UNCHANGED aux

\* self._executor.submit(self.save_sync, state, node_name), when it is accepted
executor_submit(state, node_name) ==
    /\ ~shutdown
    /\ queue' = Append(queue, [id |-> submitted + 1, state |-> state,
                               node_name |-> node_name])
    /\ submitted' = submitted + 1

\* save_background that runs the write before it returns: it needs the
\* worker to be done and the counter lock to be free
save_background_waits(state, node_name) ==
    /\ pc[Worker] = "idle"
    /\ queue = <<>>
    /\ lock = NoThread
    /\ executor_submit(state, node_name)

\* SimpleStateSaver.save_background
save_background(state, node_name) == executor_submit(state, node_name)

\* the interpreter shuts the executor down: submit raises from now on, and
\* the worker still drains what is queued.  Only submit reads the flag, so
\* the shutdown is taken when a caller is about to submit.
executor_shutdown ==
    /\ _saver = "saver"
    /\ ~shutdown
    /\ \E t \in Callers : pc[t] \in SubmitPcs
    /\ shutdown' = TRUE
    /\ UNCHANGED << _saver, counter, lock, queue, files, heap, now, pc, fr, wf,
                    outcome, calls, submitted, log, writes >>
    /\ UNCHANGED aux

----------------------------------------------------------------------------
(* Direct calls of the recorder by a caller thread *)

\* the states handed to direct calls: a plain mapping, and a mapping that
\* holds an object whose __str__ raises
InputRefs == {1, 3}
\* the states the driver hands to a wrapped step: a mapping and a string
StepInputs == {1, 2}

\* init_state_saver(): SimpleStateSaver.__init__ and the global
init_state_saver ==
    /\ pc[Driver] = "idle"
    /\ _saver = "None"
    /\ _saver' = "saver"
    /\ counter' = 0
    /\ lock' = NoThread
    /\ queue' = <<>>
    /\ UNCHANGED << shutdown, files, heap, now, pc, fr, wf, outcome, calls,
                    submitted, log, writes >>
    /\ UNCHANGED aux

\* thread t calls saver.save_sync(state, node_name)
call_save_sync(t) ==
    /\ pc[t] = "idle"
    /\ _saver = "saver"
    /\ calls < MaxCalls
    /\ \E state \in InputRefs, node_name \in NodeNames :
          fr' = [fr EXCEPT ![t] = Frame(0, state, node_name)]
    /\ pc' = [pc EXCEPT ![t] = "ss_lock"]
    /\ calls' = calls + 1
    /\ outcome' = [outcome EXCEPT ![t] = NoOutcome]
    /\ UNCHANGED << _saver, counter, lock, queue, shutdown, files, heap, now, wf,
                    submitted, log, writes >>
    /\ UNCHANGED aux

\* thread t calls saver.save_background(state, node_name)
call_save_background(t) ==
    /\ pc[t] = "idle"
    /\ _saver = "saver"
    /\ calls < MaxCalls
    /\ \E state \in InputRefs, node_name \in NodeNames :
          fr' = [fr EXCEPT ![t] = Frame(0, state, node_name)]
    /\ pc' = [pc EXCEPT ![t] = "sb_submit"]
    /\ calls' = calls + 1
    /\ outcome' = [outcome EXCEPT ![t] = NoOutcome]
    /\ UNCHANGED << _saver, counter, lock, queue, shutdown, files, heap, now, wf,
                    submitted, log, writes >>
    /\ UNCHANGED aux

\* the body of that call: the job is enqueued and the call returns None
sb_submit(t) ==
    /\ pc[t] = "sb_submit"
    /\ save_background(fr[t].state, fr[t].node_name)
    /\ pc' = [pc EXCEPT ![t] = "idle"]
    /\ fr' = [fr EXCEPT ![t] = NoFrame]
    /\ outcome' = [outcome EXCEPT ![t] = [NoOutcome EXCEPT !.kind = "returned",
                                                          !.call = "save_background"]]
    /\ UNCHANGED << _saver, counter, lock, shutdown, files, heap, now, wf, calls,
                    log, writes >>
    /\ UNCHANGED aux

\* submit raises and the exception leaves save_background
sb_submit_raises(t) ==
    /\ pc[t] = "sb_submit"
    /\ shutdown
    /\ pc' = [pc EXCEPT ![t] = "idle"]
    /\ fr' = [fr EXCEPT ![t] = NoFrame]
    /\ outcome' = [outcome EXCEPT ![t] = [NoOutcome EXCEPT !.kind = "raised",
                                                          !.exc = SubmitError,
                                                          !.call = "save_background"]]
    /\ UNCHANGED << _saver, counter, lock, queue, shutdown, files, heap, now, wf,
                    calls, submitted, log, writes >>
    /\ UNCHANGED aux

----------------------------------------------------------------------------
(* The save_state decorator: wrapper(state), run by the driver thread *)

\* actual_node_name = node_name or func.__name__
actual_node_name(node_name) ==
    IF node_name = NotGiven \/ node_name = "" THEN FuncName ELSE node_name

\* the error state with the failure stored under "error", not "_error"
make_error_state_wrong_key(h, state, e) ==
    LET copy == IF h[state].k = "dict"
                THEN h[state].v
                ELSE << <<PyStr("original_state"), h[state]>> >>
    IN [heap |-> Append(h, PyDict(DictSet(copy, PyStr("error"), PyStr(e.msg)))),
        ref |-> Len(h) + 1]

\* error_state = dict(state) if isinstance(state, dict) else {"original_state": state}
\* error_state["_error"] = str(e)
\* gives the heap with the new object, and the reference to it
make_error_state(h, state, e) ==
    LET copy == IF h[state].k = "dict"
                THEN h[state].v
                ELSE << <<PyStr("original_state"), h[state]>> >>
    IN [heap |-> Append(h, PyDict(DictSet(copy, PyStr("_error"), PyStr(e.msg)))),
        ref |-> Len(h) + 1]

\* what the wrapper handed to save_background, as it was at that moment
Sub(state, node_name) ==
    [id |-> submitted + 1, state |-> state, node_name |-> node_name, value |-> heap[state]]

\* the driver calls the wrapped step on a state
w_call(t) ==
    /\ pc[t] = "idle"
    /\ calls < MaxSteps
    /\ \E state \in StepInputs, node_name \in ExplicitNames :
          wf' = [wf EXCEPT ![t] = [NoWrap EXCEPT !.state = state,
                                                 !.node_name = node_name,
                                                 !.input = heap[state],
                                                 !.saver = _saver]]
    /\ pc' = [pc EXCEPT ![t] = "w_func"]
    /\ calls' = calls + 1
    /\ outcome' = [outcome EXCEPT ![t] = NoOutcome]
    /\ UNCHANGED << _saver, counter, lock, queue, shutdown, files, heap, now, fr,
                    submitted, log, writes >>
    /\ UNCHANGED aux

\* result = func(state) returns: the object it was given, or a new one
w_func_returns(t) ==
    /\ pc[t] = "w_func"
    /\ \/ /\ wf' = [wf EXCEPT ![t].result = wf[t].state]
          /\ heap' = heap
       \/ \E r \in StepResults :
             /\ heap' = Append(heap, r)
             /\ wf' = [wf EXCEPT ![t].result = Len(heap) + 1]
    /\ pc' = [pc EXCEPT ![t] = IF _saver = "saver" THEN "w_submit" ELSE "w_return"]
    /\ UNCHANGED << _saver, counter, lock, queue, shutdown, files, now, fr, outcome,
                    calls, submitted, log, writes >>
    /\ UNCHANGED aux

\* func(state) raises: except Exception as e
w_func_raises(t) ==
    /\ pc[t] = "w_func"
    /\ \E e \in StepErrors : wf' = [wf EXCEPT ![t].e = e, ![t].steperr = e]
    /\ pc' = [pc EXCEPT ![t] = "w_except"]
    /\ UNCHANGED << _saver, counter, lock, queue, shutdown, files, heap, now, fr,
                    outcome, calls, submitted, log, writes >>
    /\ UNCHANGED aux

\* _saver.save_background(result, actual_node_name)
w_submit(t) ==
    /\ pc[t] = "w_submit"
    /\ save_background(wf[t].result, actual_node_name(wf[t].node_name))
    /\ wf' = [wf EXCEPT ![t].subs =
                 Append(@, Sub(wf[t].result, actual_node_name(wf[t].node_name)))]
    /\ pc' = [pc EXCEPT ![t] = "w_return"]
    /\ UNCHANGED << _saver, counter, lock, shutdown, files, heap, now, fr, outcome,
                    calls, log, writes >>
    /\ UNCHANGED aux

\* that call raises inside the try block: except Exception as e
w_submit_raises(t) ==
    /\ pc[t] = "w_submit"
    /\ shutdown
    /\ wf' = [wf EXCEPT ![t].e = SubmitError]
    /\ pc' = [pc EXCEPT ![t] = "w_except"]
    /\ UNCHANGED << _saver, counter, lock, queue, shutdown, files, heap, now, fr,
                    outcome, calls, submitted, log, writes >>
    /\ UNCHANGED aux

\* return result
w_return(t) ==
    /\ pc[t] = "w_return"
    /\ outcome' = [outcome EXCEPT ![t] = [NoOutcome EXCEPT !.kind = "returned",
                                                          !.ref = wf[t].result,
                                                          !.call = "wrapper",
                                                          !.wrap = wf[t]]]
    /\ wf' = [wf EXCEPT ![t] = NoWrap]
    /\ pc' = [pc EXCEPT ![t] = "idle"]
    /\ UNCHANGED << _saver, counter, lock, queue, shutdown, files, heap, now, fr,
                    calls, submitted, log, writes >>
    /\ UNCHANGED aux

\* the handler without the test of _saver: the error state is always built
\* and handed on
w_except_unguarded(t) ==
    /\ pc[t] = "w_except"
    /\ LET made == make_error_state(heap, wf[t].state, wf[t].e)
       IN /\ heap' = made.heap
          /\ wf' = [wf EXCEPT ![t].error_state = made.ref]
          /\ pc' = [pc EXCEPT ![t] = "w_esubmit"]
    /\ UNCHANGED << _saver, counter, lock, queue, shutdown, files, now, fr, outcome,
                    calls, submitted, log, writes >>
    /\ UNCHANGED aux

\* the handler: if _saver: build error_state
w_except(t) ==
    /\ pc[t] = "w_except"
    /\ IF _saver = "saver"
       THEN LET made == make_error_state(heap, wf[t].state, wf[t].e)
            IN /\ heap' = made.heap
               /\ wf' = [wf EXCEPT ![t].error_state = made.ref]
               /\ pc' = [pc EXCEPT ![t] = "w_esubmit"]
       ELSE /\ pc' = [pc EXCEPT ![t] = "w_raise"]
            /\ UNCHANGED << heap, wf >>
    /\ UNCHANGED << _saver, counter, lock, queue, shutdown, files, now, fr, outcome,
                    calls, submitted, log, writes >>
    /\ UNCHANGED aux

\* _saver.save_background(error_state, f"{actual_node_name}_ERROR")
w_esubmit(t) ==
    /\ pc[t] = "w_esubmit"
    /\ save_background(wf[t].error_state, actual_node_name(wf[t].node_name) \o "_ERROR")
    /\ wf' = [wf EXCEPT ![t].subs =
                 Append(@, Sub(wf[t].error_state,
                               actual_node_name(wf[t].node_name) \o "_ERROR"))]
    /\ pc' = [pc EXCEPT ![t] = "w_raise"]
    /\ UNCHANGED << _saver, counter, lock, shutdown, files, heap, now, fr, outcome,
                    calls, log, writes >>
    /\ UNCHANGED aux

\* that call raises inside the handler: the new exception leaves the wrapper
w_esubmit_raises(t) ==
    /\ pc[t] = "w_esubmit"
    /\ shutdown
    /\ outcome' = [outcome EXCEPT ![t] = [NoOutcome EXCEPT !.kind = "raised",
                                                          !.exc = SubmitError,
                                                          !.call = "wrapper",
                                                          !.wrap = wf[t]]]
    /\ wf' = [wf EXCEPT ![t] = NoWrap]
    /\ pc' = [pc EXCEPT ![t] = "idle"]
    /\ UNCHANGED << _saver, counter, lock, queue, shutdown, files, heap, now, fr,
                    calls, submitted, log, writes >>
    /\ UNCHANGED aux

\* raise
w_raise(t) ==
    /\ pc[t] = "w_raise"
    /\ outcome' = [outcome EXCEPT ![t] = [NoOutcome EXCEPT !.kind = "raised",
                                                          !.exc = wf[t].e,
                                                          !.call = "wrapper",
                                                          !.wrap = wf[t]]]
    /\ wf' = [wf EXCEPT ![t] = NoWrap]
    /\ pc' = [pc EXCEPT ![t] = "idle"]
    /\ UNCHANGED << _saver, counter, lock, queue, shutdown, files, heap, now, fr,
                    calls, submitted, log, writes >>
    /\ UNCHANGED aux

wrapper(t) ==
    \/ w_call(t)
    \/ w_func_returns(t)
    \/ w_func_raises(t)
    \/ w_submit(t)
    \/ w_submit_raises(t)
    \/ w_return(t)
    \/ w_except(t)
    \/ w_esubmit(t)
    \/ w_esubmit_raises(t)
    \/ w_raise(t)

\* the wall clock; only lines 42 and 54 of save_sync read it, so a second
\* passes when a thread is about to read it
tick ==
    /\ now < MaxTicks
    /\ \E t \in Threads : pc[t] \in {"ss_filename", "ss_data"}
    /\ now' = now + 1
    /\ UNCHANGED << _saver, counter, lock, queue, shutdown, files, heap, pc, fr, wf,
                    outcome, calls, submitted, log, writes >>
    /\ UNCHANGED aux

----------------------------------------------------------------------------
(* Specifications *)

\* The recorder under direct use: caller threads call save_sync and
\* save_background while the worker drains the queue.
Next ==
    \/ init_state_saver
    \/ \E t \in Callers : call_save_sync(t)
    \/ call_save_background(Driver)
    \/ sb_submit(Driver)
    \/ sb_submit_raises(Driver)
    \/ \E t \in Threads : save_sync(t)
    \/ worker_take
    \/ executor_shutdown
    \/ tick

Spec == Init /\ [][Next]_vars

\* The instrumented workflow: the driver calls wrapped steps one after the
\* other while the worker drains the queue.  The wall clock stands still:
\* the wrapper never reads it.
NextWrapper ==
    \/ init_state_saver
    \/ wrapper(Driver)
    \/ save_sync(Worker)
    \/ worker_take
    \/ executor_shutdown

SpecWrapper == Init /\ [][NextWrapper]_vars

----------------------------------------------------------------------------
(* Properties of the recorder (Spec) *)

\* no call is in progress and the background queue has drained
Quiescent == queue = <<>> /\ \A t \in Threads : pc[t] = "idle"

\* the 'order' fields of the snapshots in the run directory
PersistedOrders == { files[p].metadata.order : p \in DOMAIN files }

\* the sequence numbers of the executions whose coercion or write failed
FailedNumbers == { log[i].n : i \in { j \in DOMAIN log : log[j].failed } }

\* C1, as stated: once the queue has drained, the order fields of the
\* persisted snapshots are exactly 1..N, N the number of snapshots persisted,
\* whether or not a write attempt failed.
C1_OrdersAreOneToN ==
    Quiescent => PersistedOrders = 1..Cardinality(DOMAIN files)

\* C1, amended: once the queue has drained, the order fields of the persisted
\* snapshots are pairwise different, increase strictly in the order the files
\* landed, and are exactly the numbers 1..counter less the numbers taken by
\* the executions that failed; they are 1..N when no execution failed.
C1_OrdersSkipFailedNumbers ==
    Quiescent =>
        /\ PersistedOrders = (1..counter) \ FailedNumbers
        /\ Cardinality(PersistedOrders) = Cardinality(DOMAIN files)
        /\ Len(writes) = Cardinality(DOMAIN files)
        /\ \A i, j \in DOMAIN writes : i < j => writes[i].order < writes[j].order
        /\ FailedNumbers = {} => PersistedOrders = 1..Cardinality(DOMAIN files)

\* C1 witness: the queue has drained after a background write that failed
\* and a later write that landed
C1_Witness ==
    /\ Quiescent
    /\ \E i, j \in DOMAIN log :
          /\ i < j
          /\ log[i].failed /\ log[i].job # 0
          /\ ~log[j].failed
    /\ Cardinality(DOMAIN files) >= 1

\* the executions that have read their sequence number and not yet returned
InFlight == { t \in Threads : fr[t].n # 0 }

\* C2: under every interleaving of save_sync executions (callers and worker)
\* no two executions obtain the same sequence number, the number in an
\* execution's file name is the number in its metadata 'order', and K
\* executions claim exactly the numbers 1..K.
C2_UniqueSequenceNumbers ==
    LET claimed == { log[i].n : i \in DOMAIN log } \cup { fr[t].n : t \in InFlight }
        K == Len(log) + Cardinality(InFlight)
    IN /\ claimed = 1..K
       /\ \A i, j \in DOMAIN log : i # j => log[i].n # log[j].n
       /\ \A i \in DOMAIN log : \A t \in InFlight : log[i].n # fr[t].n
       /\ \A t, u \in InFlight : t # u => fr[t].n # fr[u].n
       /\ \A i \in DOMAIN log :
             ~log[i].failed =>
                log[i].filename = FileName(log[i].order, log[i].node_name, log[i].timestamp)
       /\ \A t \in Threads :
             pc[t] = "ss_write" =>
                fr[t].filename =
                    FileName(fr[t].data.metadata.order, fr[t].node_name, fr[t].timestamp)
       /\ \A p \in DOMAIN files :
             \E i \in DOMAIN log :
                /\ log[i].ret = p
                /\ p = FilePath(RunDir, FileName(files[p].metadata.order, log[i].node_name,
                                                 log[i].timestamp))

\* C2 witness: three threads are involved: one has finished an execution, a
\* second one holds the lock in the middle of its own, a third one waits for
\* the lock
C2_Witness ==
    \E t, u, w \in Threads :
        /\ t # u /\ t # w /\ u # w
        /\ \E i \in DOMAIN log : log[i].thread = w
        /\ lock = u /\ pc[u] = "ss_data"
        /\ pc[t] = "ss_lock"

\* the finished executions of background jobs, in order of completion
IsBackground(e) == e.job # 0
BackgroundLog == SelectSeq(log, IsBackground)
BackgroundWrites == SelectSeq(writes, IsBackground)

\* C3: the worker executes the submitted jobs first in, first out: the jobs
\* finished are the first ones submitted, in submission order, the job being
\* executed is the next one, the queue holds the rest in submission order;
\* so files land in submission order and an earlier submission has the
\* smaller 'order'.
C3_BackgroundFifo ==
    LET done == Len(BackgroundLog)
        running == IF pc[Worker] = "idle" THEN 0 ELSE 1
    IN /\ \A i \in DOMAIN BackgroundLog : BackgroundLog[i].job = i
       /\ running = 1 => fr[Worker].job = done + 1
       /\ \A i \in DOMAIN queue : queue[i].id = done + running + i
       /\ done + running + Len(queue) = submitted
       /\ \A i, j \in DOMAIN BackgroundLog :
             i < j => BackgroundLog[i].n < BackgroundLog[j].n
       /\ \A i \in DOMAIN BackgroundLog :
             running = 1 /\ fr[Worker].n # 0 => BackgroundLog[i].n < fr[Worker].n
       /\ \A i, j \in DOMAIN BackgroundWrites :
             i < j => /\ BackgroundWrites[i].job < BackgroundWrites[j].job
                      /\ BackgroundWrites[i].order < BackgroundWrites[j].order

\* C3 witness: two background jobs were pending together, a direct save_sync
\* ran as well, and both jobs have landed
C3_Witness ==
    /\ Len(BackgroundWrites) >= 2
    /\ \E i \in DOMAIN log : log[i].job = 0 /\ log[i].n = 2

\* C4: save_background never waits on the worker: whatever the worker is
\* doing, whoever holds the counter lock and however many jobs are pending, a
\* caller inside save_background can take its step, which enqueues the job
\* (or, after the executor's shutdown, raises) and returns.
C4_SaveBackgroundNeverWaits ==
    \A t \in Callers :
        pc[t] = "sb_submit" =>
            IF shutdown THEN ENABLED sb_submit_raises(t) ELSE ENABLED sb_submit(t)

\* C4 witness: save_background has returned while the worker, holding the
\* counter lock, is in the middle of an earlier write, the job just submitted
\* is pending and no file exists yet
C4_Witness ==
    /\ pc[Driver] = "idle"
    /\ outcome[Driver].call = "save_background" /\ outcome[Driver].kind = "returned"
    /\ pc[Worker] = "ss_write" /\ lock = Worker
    /\ fr[Worker].job = 1
    /\ Len(queue) = 1 /\ queue[1].id = 2
    /\ submitted = 2 /\ calls = 2
    /\ files = << >>

\* C5: save_sync never lets a failure reach its caller: when coercion or the
\* write fails it returns the empty string, otherwise the path of the file it
\* wrote; either way the counter lock is released when it returns.
C5_SaveSyncContainsFailures ==
    /\ \A i \in DOMAIN log :
          /\ log[i].failed => log[i].ret = ""
          /\ ~log[i].failed =>
                /\ log[i].ret = FilePath(RunDir, log[i].filename)
                /\ log[i].ret \in DOMAIN files
    /\ \A t \in Callers :
          outcome[t].call = "save_sync" =>
             /\ outcome[t].kind = "returned"
             /\ \E i \in DOMAIN log : log[i].thread = t /\ log[i].ret = outcome[t].path
    /\ \A t \in Threads : pc[t] \in {"idle", "ss_lock", "sb_submit"} => lock # t

\* C5 witness: a caller's save_sync failed in coercion, another failed in the
\* write, both returned the empty string, and a later save_sync took the lock
\* and wrote its file
C5_Witness ==
    \E i, j, k \in DOMAIN log :
        /\ i < k /\ j < k
        /\ log[i].failed /\ log[i].order = 0 /\ log[i].job = 0
        /\ log[j].failed /\ log[j].order # 0
        /\ ~log[k].failed /\ log[k].ret \in DOMAIN files

----------------------------------------------------------------------------
(* Properties of the save_state wrapper (SpecWrapper) *)

\* the driver's last call was a wrapped step that returned normally
StepReturned(o) == o.call = "wrapper" /\ o.wrap.result # 0 /\ o.wrap.steperr = NoExc

\* the driver's last call was a wrapped step that raised
StepRaised(o) == o.call = "wrapper" /\ o.wrap.steperr # NoExc

\* the effective name: the explicit name if given, else the step's own name
EffectiveName(node_name) == IF node_name = NotGiven THEN FuncName ELSE node_name

\* C6: when a wrapped step returns normally and a recorder is configured, the
\* wrapper submits exactly one snapshot, carrying the step's result under the
\* effective name without the _ERROR suffix, and returns to the driver the
\* value the step returned.
C6_SuccessSubmitsOneSnapshot ==
    LET o == outcome[Driver]
    IN StepReturned(o) /\ o.wrap.saver = "saver" =>
          /\ Len(o.wrap.subs) = 1
          /\ o.wrap.subs[1].state = o.wrap.result
          /\ o.wrap.subs[1].value = heap[o.wrap.result]
          /\ o.wrap.subs[1].node_name = EffectiveName(o.wrap.node_name)
          /\ o.kind = "returned"
          /\ o.ref = o.wrap.result

\* the state of the error snapshot the wrapper is to build for a mapping
MappingErrorState(input, msg) ==
    PyDict(DictSet(input.v, PyStr("_error"), PyStr(msg)))

\* C7: when a wrapped step raises on a mapping and a recorder is configured,
\* the wrapper submits exactly one snapshot, named the effective name plus
\* "_ERROR", whose state is a copy of the input mapping plus "_error" with the
\* failure's description; the input mapping itself is left as it was; and the
\* step's failure reaches the driver.
C7_FailureSubmitsErrorSnapshot ==
    LET o == outcome[Driver]
    IN StepRaised(o) /\ o.wrap.saver = "saver" /\ o.wrap.input.k = "dict" =>
          /\ Len(o.wrap.subs) = 1
          /\ o.wrap.subs[1].node_name = EffectiveName(o.wrap.node_name) \o "_ERROR"
          /\ o.wrap.subs[1].value = MappingErrorState(o.wrap.input, o.wrap.steperr.msg)
          /\ o.wrap.subs[1].state # o.wrap.state
          /\ heap[o.wrap.state] = o.wrap.input
          /\ o.kind = "raised"
          /\ o.exc = o.wrap.steperr

\* the error snapshots of the wrapper call w whose input was not a mapping
NonMappingErrorSubs(w) ==
    { i \in DOMAIN w.subs :
         /\ w.input.k # "dict"
         /\ w.subs[i].node_name = actual_node_name(w.node_name) \o "_ERROR" }

\* the state {key: input, "_error": msg}
WrappedErrorState(key, input, msg) ==
    PyDict(<< <<PyStr(key), input>>, <<PyStr("_error"), PyStr(msg)>> >>)

\* every error snapshot of a non-mapping input, as submitted and as
\* persisted, has the state {key: input, "_error": message}
NonMappingErrorStateIs(key) ==
    \A w \in {wf[Driver], outcome[Driver].wrap} :
        \A i \in NonMappingErrorSubs(w) :
            /\ w.subs[i].value = WrappedErrorState(key, w.input, w.e.msg)
            /\ \A j \in DOMAIN writes :
                  writes[j].job = w.subs[i].id =>
                     files[writes[j].path].state = WrappedErrorState(key, w.input, w.e.msg)

C9_RecordingFailureStaysInside ==
    LET o == outcome[Driver]
    IN StepReturned(o) =>
          /\ o.kind = "returned"
          /\ o.ref = o.wrap.result
          /\ \A i \in DOMAIN o.wrap.subs :
                o.wrap.subs[i].node_name # actual_node_name(o.wrap.node_name) \o "_ERROR"

\* C10: when the wrapped step raises, the failure the driver receives is the
\* step's own failure; a failure while building or submitting the error
\* snapshot never replaces it.
C10_StepFailureReachesDriver ==
    LET o == outcome[Driver]
    IN StepRaised(o) => o.kind = "raised" /\ o.exc = o.wrap.steperr

----------------------------------------------------------------------------
(* The file paths of two save_sync executions of one recorder *)

\* sequence numbers on both sides of the three digits of {:03d}
SeqNumbers == {1, 2, 10, 11, 99, 100, 999, 1000, 1001, 10000}

\* node names: plain, empty, and with the looks of a number, a separator or a
\* time stamp
ProbeNames == {"n", "", "0_n", "1", "n_000000"}

\* seconds of the clock at which line 42 is reached
ProbeTimes == {0, 1}

\* lines 42 to 44 of save_sync for the execution that drew number n
Naming(n, node_name, t) ==
    LET timestamp == strftime_HMS(t)
        filename == FileName(n, node_name, timestamp)
    IN [n |-> n, node_name |-> node_name, timestamp |-> timestamp,
        filepath |-> FilePath(RunDir, filename)]

\* two executions of save_sync on one recorder; the counter only grows under
\* the lock, so the later execution holds the greater number
name_two ==
    /\ nm.pc = "idle"
    /\ \E n1, n2 \in SeqNumbers, a, b \in ProbeNames, t1, t2 \in ProbeTimes :
          /\ n1 < n2
          /\ nm' = [pc |-> "named", first |-> Naming(n1, a, t1),
                    second |-> Naming(n2, b, t2)]
    /\ UNCHANGED << recorder, cj, rd, g >>

NextNames == name_two

SpecNames == Init /\ [][NextNames]_vars

\* C11: two save_sync executions of one recorder never compute the same file
\* path, whatever their node names and time stamps are, equal names in the
\* same second and numbers above 999 included; so no file of the run is
\* written twice
C11_PathsNeverCollide ==
    nm.pc = "named" => nm.first.filepath # nm.second.filepath

\* the case of C11: the same node name in the same second, and the counter
\* passing from 999 to 1000
C11_Witness ==
    /\ nm.pc = "named"
    /\ nm.first.node_name = nm.second.node_name
    /\ nm.first.timestamp = nm.second.timestamp
    /\ nm.first.n = 999
    /\ nm.second.n = 1000

\* the same in the interleaved recorder: every write landed on a path of its
\* own, and no background job was executed twice
WritesNeverOverwrite ==
    /\ \A i, j \in DOMAIN writes : i # j => writes[i].path # writes[j].path
    /\ \A i, j \in DOMAIN log : (i # j /\ log[i].job # 0) => log[i].job # log[j].job

----------------------------------------------------------------------------
(* The wrapper before init_state_saver *)

\* the recorder as the module leaves it at line 88: nothing counted, queued,
\* written or logged
RecorderUntouched ==
    /\ counter = 0
    /\ lock = NoThread
    /\ queue = <<>>
    /\ ~shutdown
    /\ submitted = 0
    /\ files = << >>
    /\ log = <<>>
    /\ writes = <<>>
    /\ pc[Worker] = "idle"

\* C12: a wrapped step called while _saver is None returns the step's result
\* when the step returns and raises the step's exception when the step
\* raises; in both cases nothing was submitted, and as long as no recorder
\* was initialized the recorder state is untouched
C12_NoRecorderNoSnapshot ==
    /\ _saver = "None" => RecorderUntouched
    /\ \A t \in Callers :
          LET o == outcome[t]
          IN (o.call = "wrapper" /\ o.wrap.saver = "None") =>
                /\ o.wrap.subs = <<>>
                /\ o.wrap.error_state = 0
                /\ StepReturned(o) => (o.kind = "returned" /\ o.ref = o.wrap.result)
                /\ StepRaised(o) => (o.kind = "raised" /\ o.exc = o.wrap.steperr)

\* the case of C12: no recorder yet, two wrapped steps were called and the
\* second let its step's failure through to the driver
C12_Witness ==
    /\ _saver = "None"
    /\ calls = 2
    /\ outcome[Driver].call = "wrapper"
    /\ outcome[Driver].wrap.saver = "None"
    /\ StepRaised(outcome[Driver])
    /\ outcome[Driver].kind = "raised"

----------------------------------------------------------------------------
(* state_reader.py: print_state_summary over the files of a base directory *)

\* files under the base directory
MaxFiles == 4

\* a snapshot file as save_sync wrote it
SnapshotFile(dir, name, run_id, node, order, state) ==
    [dir |-> dir, name |-> name, loads |-> TRUE, has_metadata |-> TRUE,
     run_id |-> run_id, node |-> node, order |-> order, state |-> state]

\* the files that may lie under the base directory: snapshots of two runs
\* (two of them with the same base name), one with a null state, a file that
\* is not JSON and a JSON file without metadata
StateFiles ==
    { SnapshotFile("mtg_workflow_A", "001_launch_browser_235959.json", "A", "launch_browser", 1,
                   PyDict(<< <<PyStr("browser_ready"), PyBool(TRUE)>> >>)),
      SnapshotFile("mtg_workflow_A", "002_navigate_page_ERROR_235959.json", "A",
                   "navigate_page_ERROR", 2,
                   PyDict(<< <<PyStr("_error"), PyStr("boom")>> >>)),
      SnapshotFile("mtg_workflow_A", "1000_analyze_page_000000.json", "A", "analyze_page", 1000,
                   PyStr("x")),
      SnapshotFile("mtg_workflow_B", "001_launch_browser_235959.json", "B", "launch_browser", 1,
                   PyDict(<< <<PyStr("browser_ready"), PyBool(TRUE)>> >>)),
      SnapshotFile("mtg_workflow_B", "002_navigate_page_000000.json", "B", "navigate_page", 2,
                   PyList(<< PyStr("_error") >>)),
      SnapshotFile("mtg_workflow_B", "003_n_000000.json", "B", "n", 3, PyNone),
      [dir |-> "mtg_workflow_B", name |-> "004_n_000000.json", loads |-> FALSE,
       has_metadata |-> FALSE, run_id |-> "", node |-> "", order |-> 0, state |-> PyNone],
      [dir |-> "other", name |-> "notes.json", loads |-> TRUE, has_metadata |-> FALSE,
       run_id |-> "", node |-> "", order |-> 0,
       state |-> PyDict(<< <<PyStr("a"), PyInt(1)>> >>)] }

\* the enumerations of up to MaxFiles files: sorted(glob(...)) orders them by
\* path, which says nothing about run_id and order, so every order is taken
Enumerations ==
    { s \in UNION { [1..n -> StateFiles] : n \in 0..MaxFiles } :
        \A i, j \in DOMAIN s : i # j => s[i] # s[j] }

\* load_state(filepath): the document, or None when reading or parsing fails
load_state(f) == IF f.loads THEN f ELSE PyNone

\* "_error" in state: a key of a mapping, an item of a list, a part of a
\* string, and a TypeError for anything else
HasError(state) ==
    CASE state.k = "dict" -> PyBool(\E i \in DOMAIN state.v : state.v[i][1] = PyStr("_error"))
      [] state.k = "list" -> PyBool(\E i \in DOMAIN state.v : state.v[i] = PyStr("_error"))
      [] state.k = "str" -> PyBool(state.v = "_error")
      [] OTHER -> Raise

\* the position of run_id among the keys of runs, 0 when it is not a key
RunIndex(runs, run_id) ==
    IF \E i \in DOMAIN runs : runs[i].run_id = run_id
    THEN CHOOSE i \in DOMAIN runs : runs[i].run_id = run_id
    ELSE 0

\* lines 77 to 93: the body of the loop over the files, for one file
summarize_file(runs, f) ==
    LET state_data == load_state(f)
    IN IF state_data = PyNone THEN runs
       ELSE LET run_id == IF f.has_metadata THEN f.run_id ELSE "unknown"
                runs1 == IF RunIndex(runs, run_id) = 0
                         THEN Append(runs, [run_id |-> run_id, states |-> <<>>])
                         ELSE runs
                has_error == HasError(f.state)
                entry == [file |-> f.name,
                          node |-> IF f.has_metadata THEN f.node ELSE "unknown",
                          order |-> IF f.has_metadata THEN f.order ELSE 0,
                          has_error |-> has_error]
            IN IF has_error = Raise THEN runs1
               ELSE [runs1 EXCEPT ![RunIndex(runs1, run_id)].states = Append(@, entry)]

\* the list with x put behind every item whose order is not greater
InsertByOrder(s, x) ==
    LET before == SelectSeq(s, LAMBDA y : y.order <= x.order)
        after == SelectSeq(s, LAMBDA y : y.order > x.order)
    IN before \o << x >> \o after

RECURSIVE SortFrom(_, _)
SortFrom(s, acc) ==
    IF s = <<>> THEN acc ELSE SortFrom(Tail(s), InsertByOrder(acc, Head(s)))

\* the list left in the order of enumeration
sort_by_order_skipped(states) == states

\* states.sort(key=lambda x: x["order"])
sort_by_order(states) == SortFrom(states, <<>>)

\* files = list_state_files(base_dir); if not files: return
list_state_files ==
    /\ rd.pc = "idle"
    /\ \E listing \in Enumerations :
          rd' = [pc |-> IF listing = <<>> THEN "done" ELSE "load", files |-> listing,
                 i |-> 1, runs |-> <<>>]
    /\ UNCHANGED << recorder, nm, cj, g >>

\* for filepath in files: one turn of the loop
summary_load ==
    /\ rd.pc = "load"
    /\ rd' = [rd EXCEPT !.runs = summarize_file(rd.runs, rd.files[rd.i]),
                        !.i = rd.i + 1,
                        !.pc = IF rd.i = Len(rd.files) THEN "sort" ELSE "load"]
    /\ UNCHANGED << recorder, nm, cj, g >>

\* for run_id, states in runs.items(): states.sort(...) and the printing
summary_sort ==
    /\ rd.pc = "sort"
    /\ rd' = [rd EXCEPT !.runs = [i \in DOMAIN rd.runs |->
                                     [rd.runs[i] EXCEPT !.states = sort_by_order(@)]],
                        !.pc = "done"]
    /\ UNCHANGED << recorder, nm, cj, g >>

print_state_summary ==
    \/ list_state_files
    \/ summary_load
    \/ summary_sort

NextReader == print_state_summary

SpecReader == Init /\ [][NextReader]_vars

\* the files of the enumeration that end up listed under run_id
Listed(run_id) ==
    { i \in DOMAIN rd.files :
        /\ rd.files[i].loads
        /\ HasError(rd.files[i].state) # Raise
        /\ (IF rd.files[i].has_metadata THEN rd.files[i].run_id ELSE "unknown") = run_id }

\* C13: when the summary is done, the groups carry distinct run ids, every
\* group lists exactly the loaded snapshots whose metadata names its run id
\* (as many of each order as were enumerated), and every group is in
\* non-decreasing order
C13_GroupedByRunSortedByOrder ==
    rd.pc = "done" =>
       /\ \A i, j \in DOMAIN rd.runs : i # j => rd.runs[i].run_id # rd.runs[j].run_id
       /\ \A i \in DOMAIN rd.runs :
             LET states == rd.runs[i].states
                 listed == Listed(rd.runs[i].run_id)
             IN /\ Len(states) = Cardinality(listed)
                /\ \A k \in listed :
                      Cardinality({ j \in DOMAIN states : states[j].order = rd.files[k].order })
                      = Cardinality({ j \in listed : rd.files[j].order = rd.files[k].order })
                /\ \A j, k \in DOMAIN states : j < k => states[j].order <= states[k].order
       /\ \A k \in DOMAIN rd.files :
             (rd.files[k].loads /\ rd.files[k].has_metadata) =>
                \E i \in DOMAIN rd.runs : rd.runs[i].run_id = rd.files[k].run_id

\* the case of C13: snapshots of both runs were enumerated interleaved and
\* against their order, and the summary shows two groups of two snapshots
C13_Witness ==
    /\ rd.pc = "done"
    /\ Len(rd.files) = 4
    /\ rd.files[1].run_id = "A" /\ rd.files[1].order = 1000
    /\ rd.files[2].run_id = "B" /\ rd.files[2].order = 2
    /\ rd.files[3].run_id = "A" /\ rd.files[3].order = 1
    /\ rd.files[4].run_id = "B" /\ rd.files[4].order = 1
    /\ Len(rd.runs) = 2
    /\ \A i \in DOMAIN rd.runs : Len(rd.runs[i].states) = 2

----------------------------------------------------------------------------
(* Sequence numbers of submitted jobs *)

\* the sequence number that job a holds, 0 as long as it holds none
NumberOf(a) ==
    IF \E i \in DOMAIN log : log[i].job = a
    THEN log[CHOOSE i \in DOMAIN log : log[i].job = a].n
    ELSE IF fr[Worker].job = a THEN fr[Worker].n ELSE 0

\* C14: the number of a job is assigned when save_background is called: when
\* a direct save_sync of the driver, which made every submission before it,
\* has obtained its number, every job submitted so far holds a number, and a
\* smaller one
C14_NumberAssignedAtSubmission ==
    (pc[Driver] # "idle" /\ fr[Driver].job = 0 /\ fr[Driver].n # 0) =>
       \A a \in 1..submitted : NumberOf(a) # 0 /\ NumberOf(a) < fr[Driver].n

----------------------------------------------------------------------------
(* The extent of the counter lock *)

\* C15: the lock covers only the increment and the read of the counter: no
\* thread holds it while it coerces the state of its snapshot or writes its
\* file
C15_LockOnlyAroundCounter ==
    \A t \in Threads : pc[t] \in {"ss_clean", "ss_write"} => lock # t

----------------------------------------------------------------------------
(* The driver goes on working on the state a wrapped step gave back *)

\* the driver, or the next step it runs, updates in place the mapping that
\* the wrapped step returned: state["page_ready"] = True
mutate_state ==
    /\ pc[Driver] = "idle"
    /\ outcome[Driver].call = "wrapper"
    /\ outcome[Driver].kind = "returned"
    /\ heap[outcome[Driver].ref].k = "dict"
    /\ \A i \in DOMAIN heap[outcome[Driver].ref].v :
          heap[outcome[Driver].ref].v[i][1] # PyStr("page_ready")
    /\ heap' = [heap EXCEPT ![outcome[Driver].ref] =
                   PyDict(DictSet(@.v, PyStr("page_ready"), PyBool(TRUE)))]
    /\ UNCHANGED << _saver, counter, lock, queue, shutdown, files, now, pc, fr, wf,
                    outcome, calls, submitted, log, writes >>
    /\ UNCHANGED aux

NextMutate ==
    \/ NextWrapper
    \/ mutate_state

SpecMutate == Init /\ [][NextMutate]_vars

\* C16: the file of a snapshot that the wrapper submitted shows the state as
\* it was when save_background was called, whatever happened to the state
\* object afterwards
C16_SnapshotShowsSubmittedState ==
    \A i \in DOMAIN writes :
       \A k \in DOMAIN outcome[Driver].wrap.subs :
          LET sub == outcome[Driver].wrap.subs[k]
          IN writes[i].job = sub.id =>
                files[writes[i].path].state = _clean_for_json(sub.value)

----------------------------------------------------------------------------
(* Progress of the background worker *)

\* the recorder with running threads: the executor thread takes a job
\* whenever one is queued, and every thread inside save_sync takes its next
\* step whenever it can; a thread waiting for the lock can because the thread
\* holding it keeps running until it leaves the with-block
Fairness ==
    /\ WF_vars(worker_take)
    /\ \A t \in Threads : WF_vars(save_sync(t))

\* the recorder's callers and worker with the clock standing still: the time
\* stamps have no part in who may take a step
NextLive ==
    \/ init_state_saver
    \/ \E t \in Callers : call_save_sync(t)
    \/ call_save_background(Driver)
    \/ sb_submit(Driver)
    \/ sb_submit_raises(Driver)
    \/ \E t \in Threads : save_sync(t)
    \/ worker_take
    \/ executor_shutdown

SpecLive == Init /\ [][NextLive]_vars /\ Fairness

\* job a was executed: save_sync returned for it, with a file or with ""
Attempted(a) == \E i \in DOMAIN log : log[i].job = a

\* C17: every job that save_background put on the queue is eventually taken
\* by the worker and its save_sync runs to its return, also when the write of
\* a job before it failed
C17_SubmittedJobsComplete ==
    \A a \in 1..MaxCalls : (submitted >= a) ~> Attempted(a)

\* the case of C17: the write of the first job failed and the job queued
\* behind it has been attempted too
C17_Witness ==
    /\ \E i \in DOMAIN log : log[i].job = 1 /\ log[i].failed
    /\ Attempted(2)

----------------------------------------------------------------------------
(* _clean_for_json on values of bounded size *)

\* items of a list or tuple, entries of a dict
MaxLen == 2
\* containers inside containers
MaxDepth == 2

Primitives == {PyNone, PyStr("s"), PyInt(1), PyBool(TRUE)}

\* dict keys: strings, and an int whose str() is one of them
DictKeys == {PyStr("a"), PyStr("1"), PyInt(1)}

\* the lists, tuples and dicts of up to MaxLen primitives
FlatContainers ==
    LET seqs == UNION { [1..n -> Primitives] : n \in 0..MaxLen }
        keys == { ks \in UNION { [1..n -> DictKeys] : n \in 0..MaxLen } :
                    \A i, j \in DOMAIN ks : i # j => ks[i] # ks[j] }
    IN { PyList(s) : s \in seqs } \cup { PyTuple(s) : s \in seqs }
       \cup UNION { { PyDict([i \in DOMAIN ks |-> <<ks[i], vs[i]>>]) :
                        vs \in [DOMAIN ks -> Primitives] } : ks \in keys }

\* a value put into a list, into a tuple, or under a key
Wrapped(vals) ==
    { PyList(<< v >>) : v \in vals } \cup { PyTuple(<< v >>) : v \in vals }
    \cup { PyDict(<< <<key, v>> >>) : key \in DictKeys, v \in vals }

\* the values nested at most d deep; d = 0 gives the primitives and an object
\* that only str() can render
RECURSIVE PyValues(_)
PyValues(d) ==
    IF d = 0 THEN Primitives \cup {PyObject("<Page url='about:blank'>")}
    ELSE IF d = 1 THEN PyValues(0) \cup FlatContainers \cup Wrapped(PyValues(0))
    ELSE PyValues(d - 1) \cup Wrapped(PyValues(d - 1))

\* self._clean_for_json(obj), and once more on what it returned
clean_value ==
    /\ cj.pc = "idle"
    /\ \E obj \in PyValues(MaxDepth) :
          cj' = [pc |-> "cleaned", input |-> obj, once |-> _clean_for_json(obj),
                 twice |-> _clean_for_json(_clean_for_json(obj))]
    /\ UNCHANGED << recorder, nm, rd, g >>

NextClean == clean_value

SpecClean == Init /\ [][NextClean]_vars

\* built from primitives, lists, tuples and dicts only
RECURSIVE IsPlain(_)
IsPlain(obj) ==
    IF obj.k \in {"none", "str", "int", "float", "bool"} THEN TRUE
    ELSE IF obj.k \in {"list", "tuple"} THEN \A i \in DOMAIN obj.v : IsPlain(obj.v[i])
    ELSE IF obj.k = "dict" THEN \A i \in DOMAIN obj.v : IsPlain(obj.v[i][2])
    ELSE FALSE

\* built from primitives, lists, and dicts with string keys only
RECURSIVE IsJsonPlain(_)
IsJsonPlain(obj) ==
    IF obj.k \in {"none", "str", "int", "float", "bool"} THEN TRUE
    ELSE IF obj.k = "list" THEN \A i \in DOMAIN obj.v : IsJsonPlain(obj.v[i])
    ELSE IF obj.k = "dict"
    THEN \A i \in DOMAIN obj.v : obj.v[i][1].k = "str" /\ IsJsonPlain(obj.v[i][2])
    ELSE FALSE

\* C18 as stated: every value built from primitives, ordered sequences and
\* keyed mappings is returned deep-equal by _clean_for_json, and coercing the
\* result again changes nothing
C18_IdentityOnPlain ==
    (cj.pc = "cleaned" /\ IsPlain(cj.input)) =>
       (cj.once = cj.input /\ cj.twice = cj.once)

\* C18: every value built from primitives, lists and dicts with string keys
\* is returned deep-equal by _clean_for_json; and for every value whatever,
\* coercing the result again changes nothing
C18_IdentityOnJsonPlain ==
    cj.pc = "cleaned" =>
       /\ IsJsonPlain(cj.input) => cj.once = cj.input
       /\ cj.twice = cj.once
       /\ IsJsonPlain(cj.once)

\* the case of C18: a dict with a string key over a list came back as it was
C18_Witness ==
    /\ cj.pc = "cleaned"
    /\ cj.input.k = "dict"
    /\ Len(cj.input.v) = 1
    /\ cj.input.v[1][1].k = "str"
    /\ cj.input.v[1][2].k = "list"
    /\ Len(cj.input.v[1][2].v) = 2
    /\ cj.once = cj.input

----------------------------------------------------------------------------
(* graph.py: the three wrapped nodes and the driver that runs them in turn *)

\* the nodes in the order of the edges START -> ... -> END
GraphNodes == << "launch_browser", "navigate_page", "analyze_page" >>

\* for attempt in range(2)
Attempts == 2

\* the states the graph is invoked on: only messages given, or a full State
GraphInputs ==
    { PyDict(<< <<PyStr("messages"), PyList(<< >>)>> >>),
      PyDict(<< <<PyStr("messages"), PyList(<< PyStr("start") >>)>>,
                <<PyStr("browser_ready"), PyBool(FALSE)>>,
                <<PyStr("page_ready"), PyBool(FALSE)>>,
                <<PyStr("page_content"), PyNone>>,
                <<PyStr("error_message"), PyNone>> >>) }

\* what Playwright raises: on launch, on new_page, goto and content
BrowserErrors == { "Executable doesn't exist" }
NavErrors == { "Timeout 60000ms exceeded.", "net::ERR_NAME_NOT_RESOLVED" }
\* what breakpoint() raises when the debugger is quit
AnalysisErrors == { "" }

\* state.get(key, default)
DictGet(items, key, default) ==
    IF \E i \in DOMAIN items : items[i][1] = PyStr(key)
    THEN items[CHOOSE i \in DOMAIN items : items[i][1] = PyStr(key)][2]
    ELSE default

\* bool(obj)
Truthy(obj) ==
    CASE obj.k = "none" -> FALSE
      [] obj.k = "bool" -> obj.v
      [] obj.k = "str" -> obj.v # ""
      [] obj.k = "int" -> obj.v # 0
      [] obj.k \in {"list", "tuple", "dict"} -> obj.v # << >>
      [] OTHER -> TRUE

\* state.get("messages", []) + [msg]
MessagesPlus(items, msg) ==
    PyList(DictGet(items, "messages", PyList(<< >>)).v \o << PyStr(msg) >>)

\* {**state, "error_message": error, "messages": state.get("messages", []) + [msg]}
ErrorState(items, error, msg) ==
    PyDict(DictSet(DictSet(items, PyStr("error_message"), PyStr(error)),
                   PyStr("messages"), MessagesPlus(items, msg)))

\* "Timeout" in str(e)
HasTimeout(msg) == msg \in { "Timeout 60000ms exceeded." }

\* the page_data of lines 101 to 106
PageData ==
    PyDict(<< <<PyStr("html"), PyStr("<html></html>")>>,
              <<PyStr("text"), PyStr("")>>,
              <<PyStr("title"), PyStr("MTG Cardsmith")>>,
              <<PyStr("url"), PyStr("https://mtgcardsmith.com/mtg-card-maker/edit")>> >>)

\* the state argument of the node the driver is in
NodeState == heap[wf[Driver].state].v

\* the driver calls the wrapped node i on the state object ref
EnterNode(i, ref, h) ==
    /\ wf' = [wf EXCEPT ![Driver] = [NoWrap EXCEPT !.state = ref,
                                                   !.node_name = GraphNodes[i],
                                                   !.input = h[ref],
                                                   !.saver = _saver]]
    /\ pc' = [pc EXCEPT ![Driver] = GraphNodes[i]]
    /\ outcome' = [outcome EXCEPT ![Driver] = NoOutcome]

\* the node returns a new dict to the wrapper: result = func(state)
NodeReturns(value) ==
    /\ heap' = Append(heap, value)
    /\ wf' = [wf EXCEPT ![Driver].result = Len(heap) + 1]
    /\ pc' = [pc EXCEPT ![Driver] = IF _saver = "saver" THEN "w_submit" ELSE "w_return"]

\* what the driver saw of the node that just ended
StepRecord ==
    [node |-> GraphNodes[g.node], kind |-> outcome[Driver].kind,
     subs |-> [k \in DOMAIN outcome[Driver].wrap.subs |->
                  outcome[Driver].wrap.subs[k].node_name],
     prereq |-> g.prereq, acts |-> g.acts, failed |-> g.failed,
     result |-> IF outcome[Driver].kind = "returned" THEN heap[outcome[Driver].ref]
                ELSE PyNone]

\* graph.invoke(input): the module was imported, so line 163 has run; the
\* first node is called
graph_invoke ==
    /\ g.pc = "idle"
    /\ _saver = "saver"
    /\ pc[Driver] = "idle"
    /\ \E input \in GraphInputs :
          /\ heap' = Append(heap, input)
          /\ EnterNode(1, Len(heap) + 1, Append(heap, input))
    /\ g' = [g EXCEPT !.pc = "running", !.node = 1]
    /\ UNCHANGED << _saver, counter, lock, queue, shutdown, files, now, fr, calls,
                    submitted, log, writes, nm, cj, rd >>

\* an edge: the node returned and the next one is called on what it returned
graph_edge ==
    /\ g.pc = "running"
    /\ pc[Driver] = "idle"
    /\ outcome[Driver].call = "wrapper"
    /\ outcome[Driver].kind = "returned"
    /\ g.node < Len(GraphNodes)
    /\ EnterNode(g.node + 1, outcome[Driver].ref, heap)
    /\ g' = [g EXCEPT !.node = g.node + 1, !.attempt = 0, !.prereq = TRUE,
                      !.acts = << >>, !.failed = FALSE,
                      !.steps = Append(@, StepRecord)]
    /\ UNCHANGED << _saver, counter, lock, queue, shutdown, files, heap, now, fr,
                    calls, submitted, log, writes, nm, cj, rd >>

\* the edge to END: the last node returned
graph_end ==
    /\ g.pc = "running"
    /\ pc[Driver] = "idle"
    /\ outcome[Driver].call = "wrapper"
    /\ outcome[Driver].kind = "returned"
    /\ g.node = Len(GraphNodes)
    /\ g' = [g EXCEPT !.pc = "done", !.steps = Append(@, StepRecord)]
    /\ UNCHANGED << recorder, nm, cj, rd >>

\* a node raised: the exception leaves graph.invoke and no further node runs
graph_raised ==
    /\ g.pc = "running"
    /\ pc[Driver] = "idle"
    /\ outcome[Driver].call = "wrapper"
    /\ outcome[Driver].kind = "raised"
    /\ g' = [g EXCEPT !.pc = "raised", !.steps = Append(@, StepRecord)]
    /\ UNCHANGED << recorder, nm, cj, rd >>

\* launch_browser_node: if not state: state = {...}
LaunchState ==
    IF NodeState = << >>
    THEN << <<PyStr("messages"), PyList(<< >>)>>,
            <<PyStr("browser_ready"), PyBool(FALSE)>>,
            <<PyStr("page_ready"), PyBool(FALSE)>>,
            <<PyStr("page_content"), PyNone>>,
            <<PyStr("error_message"), PyNone>> >>
    ELSE NodeState

\* the browser starts: _BROWSER is set and browser_ready goes into the state
launch_ok ==
    /\ pc[Driver] = "launch_browser"
    /\ g' = [g EXCEPT !.browser = "browser", !.acts = Append(@, "launch")]
    /\ NodeReturns(PyDict(DictSet(DictSet(LaunchState, PyStr("browser_ready"), PyBool(TRUE)),
                                  PyStr("messages"),
                                  MessagesPlus(LaunchState, "Browser launched"))))
    /\ UNCHANGED << _saver, counter, lock, queue, shutdown, files, now, fr, outcome,
                    calls, submitted, log, writes, nm, cj, rd >>

\* sync_playwright().start() or launch raises: except Exception as e
launch_fails ==
    /\ pc[Driver] = "launch_browser"
    /\ g' = [g EXCEPT !.acts = Append(@, "launch"), !.failed = TRUE]
    /\ \E e \in BrowserErrors :
          NodeReturns(ErrorState(LaunchState, "Browser failed: " \o e,
                                 "Browser error: " \o e))
    /\ UNCHANGED << _saver, counter, lock, queue, shutdown, files, now, fr, outcome,
                    calls, submitted, log, writes, nm, cj, rd >>

launch_browser_node ==
    \/ launch_ok
    \/ launch_fails

\* if not state.get("browser_ready") or not _BROWSER: return without a try
nav_no_browser ==
    /\ pc[Driver] = "navigate_page"
    /\ ~Truthy(DictGet(NodeState, "browser_ready", PyNone)) \/ g.browser = "None"
    /\ g' = [g EXCEPT !.prereq = FALSE]
    /\ NodeReturns(ErrorState(NodeState, "No browser available",
                              "No browser for navigation"))
    /\ UNCHANGED << _saver, counter, lock, queue, shutdown, files, now, fr, outcome,
                    calls, submitted, log, writes, nm, cj, rd >>

\* the handler of line 117 returns the state with the failure in it
NavigationFailed(e) ==
    LET error_msg == IF HasTimeout(e)
                     THEN "Navigation failed: " \o e \o " (site may be slow)"
                     ELSE "Navigation failed: " \o e
    IN NodeReturns(ErrorState(NodeState, error_msg, error_msg))

\* _PAGE = _BROWSER.new_page()
nav_new_page ==
    /\ pc[Driver] = "navigate_page"
    /\ Truthy(DictGet(NodeState, "browser_ready", PyNone))
    /\ g.browser # "None"
    /\ g' = [g EXCEPT !.page = "page", !.acts = Append(@, "new_page")]
    /\ pc' = [pc EXCEPT ![Driver] = "nav_goto"]
    /\ UNCHANGED << _saver, counter, lock, queue, shutdown, files, heap, now, fr, wf,
                    outcome, calls, submitted, log, writes, nm, cj, rd >>

\* new_page raises
nav_new_page_fails ==
    /\ pc[Driver] = "navigate_page"
    /\ Truthy(DictGet(NodeState, "browser_ready", PyNone))
    /\ g.browser # "None"
    /\ g' = [g EXCEPT !.acts = Append(@, "new_page"), !.failed = TRUE]
    /\ \E e \in NavErrors : NavigationFailed(e)
    /\ UNCHANGED << _saver, counter, lock, queue, shutdown, files, now, fr, outcome,
                    calls, submitted, log, writes, nm, cj, rd >>

\* _PAGE.goto(...) succeeds: break
nav_goto_ok ==
    /\ pc[Driver] = "nav_goto"
    /\ g' = [g EXCEPT !.acts = Append(@, "goto")]
    /\ pc' = [pc EXCEPT ![Driver] = "nav_capture"]
    /\ UNCHANGED << _saver, counter, lock, queue, shutdown, files, heap, now, fr, wf,
                    outcome, calls, submitted, log, writes, nm, cj, rd >>

\* _PAGE.goto(...) raises on the first attempt: the loop goes round
nav_goto_retry ==
    /\ pc[Driver] = "nav_goto"
    /\ g.attempt + 1 < Attempts
    /\ g' = [g EXCEPT !.acts = Append(@, "goto"), !.attempt = g.attempt + 1]
    /\ UNCHANGED << recorder, nm, cj, rd >>

\* _PAGE.goto(...) raises on the last attempt: raise nav_error, caught at line 117
nav_goto_fails ==
    /\ pc[Driver] = "nav_goto"
    /\ g.attempt + 1 = Attempts
    /\ g' = [g EXCEPT !.acts = Append(@, "goto"), !.failed = TRUE]
    /\ \E e \in NavErrors : NavigationFailed(e)
    /\ UNCHANGED << _saver, counter, lock, queue, shutdown, files, now, fr, outcome,
                    calls, submitted, log, writes, nm, cj, rd >>

\* content(), title() and url are read; a failing evaluate only changes the
\* text; the state comes back with page_ready and page_content
nav_capture_ok ==
    /\ pc[Driver] = "nav_capture"
    /\ g' = [g EXCEPT !.acts = Append(@, "content")]
    /\ \E text \in { PyStr("Create your own card"), PyStr("Text extraction failed") } :
          NodeReturns(PyDict(DictSet(DictSet(DictSet(NodeState,
                                PyStr("page_ready"), PyBool(TRUE)),
                                PyStr("page_content"),
                                PyDict(DictSet(PageData.v, PyStr("text"), text))),
                                PyStr("messages"),
                                MessagesPlus(NodeState, "Captured page: 13 chars"))))
    /\ UNCHANGED << _saver, counter, lock, queue, shutdown, files, now, fr, outcome,
                    calls, submitted, log, writes, nm, cj, rd >>

\* content() or title() raises
nav_capture_fails ==
    /\ pc[Driver] = "nav_capture"
    /\ g' = [g EXCEPT !.acts = Append(@, "content"), !.failed = TRUE]
    /\ \E e \in NavErrors : NavigationFailed(e)
    /\ UNCHANGED << _saver, counter, lock, queue, shutdown, files, now, fr, outcome,
                    calls, submitted, log, writes, nm, cj, rd >>

navigate_to_page_node ==
    \/ nav_no_browser
    \/ nav_new_page
    \/ nav_new_page_fails
    \/ nav_goto_ok
    \/ nav_goto_retry
    \/ nav_goto_fails
    \/ nav_capture_ok
    \/ nav_capture_fails

\* if not state.get("page_content"): return without a try
analyze_no_content ==
    /\ pc[Driver] = "analyze_page"
    /\ ~Truthy(DictGet(NodeState, "page_content", PyNone))
    /\ g' = [g EXCEPT !.prereq = FALSE]
    /\ NodeReturns(ErrorState(NodeState, "No page content to analyze",
                              "No content available"))
    /\ UNCHANGED << _saver, counter, lock, queue, shutdown, files, now, fr, outcome,
                    calls, submitted, log, writes, nm, cj, rd >>

\* the sizes are taken, breakpoint() comes back and the state is returned
\* with one more message
analyze_ok ==
    /\ pc[Driver] = "analyze_page"
    /\ Truthy(DictGet(NodeState, "page_content", PyNone))
    /\ g' = [g EXCEPT !.acts = Append(@, "analyze")]
    /\ NodeReturns(PyDict(DictSet(NodeState, PyStr("messages"),
                                  MessagesPlus(NodeState, "Analysis complete"))))
    /\ UNCHANGED << _saver, counter, lock, queue, shutdown, files, now, fr, outcome,
                    calls, submitted, log, writes, nm, cj, rd >>

\* breakpoint() ends with BdbQuit, an Exception: except Exception as e
analyze_fails ==
    /\ pc[Driver] = "analyze_page"
    /\ Truthy(DictGet(NodeState, "page_content", PyNone))
    /\ g' = [g EXCEPT !.acts = Append(@, "analyze"), !.failed = TRUE]
    /\ \E e \in AnalysisErrors :
          NodeReturns(ErrorState(NodeState, "Analysis failed: " \o e,
                                 "Analysis error: " \o e))
    /\ UNCHANGED << _saver, counter, lock, queue, shutdown, files, now, fr, outcome,
                    calls, submitted, log, writes, nm, cj, rd >>

analyze_page_node ==
    \/ analyze_no_content
    \/ analyze_ok
    \/ analyze_fails

\* the wrapper around a node, from the node's return on; no node raises, so
\* the handler is entered only from a submission that raised, with the
\* executor down, and its own submission raises too
wrapped_node_tail ==
    \/ w_submit(Driver)
    \/ w_submit_raises(Driver)
    \/ w_return(Driver)
    \/ w_except(Driver)
    \/ w_esubmit_raises(Driver)

NextGraph ==
    \/ init_state_saver
    \/ graph_invoke
    \/ launch_browser_node
    \/ navigate_to_page_node
    \/ analyze_page_node
    \/ wrapped_node_tail
    \/ graph_edge
    \/ graph_end
    \/ graph_raised
    \/ save_sync(Worker)
    \/ worker_take
    \/ executor_shutdown

SpecGraph == Init /\ [][NextGraph]_vars

\* error_message of a returned state is set
ErrorMessageSet(result) ==
    result.k = "dict" /\ DictGet(result.v, "error_message", PyNone) # PyNone

\* C19: no node raises to the driver: the nodes that ran are the first nodes
\* of launch_browser, navigate_page, analyze_page in that order, each
\* returned and submitted exactly one snapshot under its own name; a node in
\* which something failed or whose prerequisite was missing returned a state
\* with error_message set, and without a prerequisite it attempted nothing;
\* a workflow that ended ran all three
C19_WorkflowNeverRaises ==
    /\ g.pc # "raised"
    /\ \A i \in DOMAIN g.steps :
          LET step == g.steps[i]
          IN /\ step.node = GraphNodes[i]
             /\ step.kind = "returned"
             /\ step.subs = << GraphNodes[i] >>
             /\ (step.failed \/ ~step.prereq) => ErrorMessageSet(step.result)
             /\ ~step.prereq => step.acts = << >>
    /\ g.pc = "done" => Len(g.steps) = Len(GraphNodes)

\* the same for the workflows during which the executor was not shut down
GraphHoldsWhileExecutorUp == ~shutdown => C19_WorkflowNeverRaises

====
